---- MODULE Spec2Model ----
(***************************************************************************)
(* PageRank (pagerank.py): transition_model, sample_pagerank,              *)
(* iterate_pagerank and check_dict.                                        *)
(*                                                                         *)
(* Python floats are modelled as exact rationals [num, den] in lowest      *)
(* terms, so that sums, quotients and the 0.001 threshold are computed and *)
(* compared exactly.  A dict keyed by the pages of the corpus is a         *)
(* function on 1..N; its iteration order (dict insertion order) is 1..N.   *)
(***************************************************************************)
EXTENDS Integers, FiniteSets, Sequences, TLC

(* ------------------------------ bounds -------------------------------- *)

\* largest number of pages of an enumerated corpus
NumPages == 3
\* largest number of pages of a corpus enumerated for the random walk
SamplePages == 2
\* largest sample count n passed to sample_pagerank
MaxSamples == 3
\* cap on the number of passes of the while loop of iterate_pagerank
MaxIter == 6

(* --------------------------- exact arithmetic -------------------------- *)

Abs(x) == IF x < 0 THEN -x ELSE x

\* the remainder is bound to a value before the recursive call
RECURSIVE Gcd(_, _)
Gcd(a, b) == IF b = 0 THEN a ELSE CHOOSE g \in {Gcd(b, r) : r \in {a % b}} : TRUE

\* the rational n/d (d # 0) in lowest terms with a positive denominator
Rat(n, d) ==
    CHOOSE r \in {[num |-> (IF b < 0 THEN -1 ELSE 1) * (a \div g),
                    den |-> (IF b < 0 THEN -1 ELSE 1) * (b \div g)] :
                      <<a, b, g>> \in {<<n, d, Gcd(Abs(n), Abs(d))>>}} : TRUE

Whole(k) == [num |-> k, den |-> 1]
Zero == Whole(0)
One == Whole(1)

Lcm(a, b) == (a \div Gcd(a, b)) * b

\* Add, Mul and Less bind their arguments to values before they compute, so
\* that nested expressions are evaluated once.
Plus(a, b) ==
    CHOOSE r \in {Rat(a.num * (l \div a.den) + b.num * (l \div b.den), l) :
                      l \in {Lcm(a.den, b.den)}} : TRUE

Add(x, y) == CHOOSE r \in {Plus(a, b) : a \in {x}, b \in {y}} : TRUE

Neg(x) == [num |-> -x.num, den |-> x.den]
Sub(x, y) == Add(x, Neg(y))

Times(a, b) ==
    LET u == Rat(a.num, b.den)
        v == Rat(b.num, a.den)
    IN  [num |-> u.num * v.num, den |-> u.den * v.den]

Mul(x, y) == CHOOSE r \in {Times(a, b) : a \in {x}, b \in {y}} : TRUE

\* x / y, y # 0
Div(x, y) == Mul(x, Rat(y.den, y.num))

\* x < y, by integer parts and then the reciprocals of the fractional parts
RECURSIVE Less(_, _)
Below(a, b) ==
    LET qa == a.num \div a.den
        qb == b.num \div b.den
        ra == a.num % a.den
        rb == b.num % b.den
    IN  IF qa # qb THEN qa < qb
        ELSE IF rb = 0 THEN FALSE
        ELSE IF ra = 0 THEN TRUE
        ELSE Less([num |-> b.den, den |-> rb], [num |-> a.den, den |-> ra])

Less(x, y) == \E a \in {x}, b \in {y} : Below(a, b)

Gt(x, y) == Less(y, x)
Leq(x, y) == ~Less(y, x)

\* sum(d.values()) for a dict d keyed by 1..Len
RECURSIVE SumTo(_, _)
SumTo(d, k) == IF k = 0 THEN Zero ELSE Add(SumTo(d, k - 1), d[k])
SumValues(d) == SumTo(d, Cardinality(DOMAIN d))

RECURSIVE IntSumTo(_, _)
IntSumTo(d, k) == IF k = 0 THEN 0 ELSE IntSumTo(d, k - 1) + d[k]
IntSumValues(d) == IntSumTo(d, Cardinality(DOMAIN d))

(* ------------------------------ inputs -------------------------------- *)

DAMPING == Rat(17, 20)
THRESHOLD == Rat(1, 1000)

\* the corpora crawl() can return for N pages: no self links, every link a key
Graphs(N) == {c \in [1..N -> SUBSET (1..N)] : \A p \in 1..N : p \notin c[p]}

\* the corpus of playground.py, "k.html" written k
PlaygroundPages == (1 :> {2, 3}) @@ (2 :> {3}) @@ (3 :> {2}) @@ (4 :> {})

Corpora == UNION {Graphs(N) : N \in 1..NumPages} \cup {PlaygroundPages}
SampleCorpora == UNION {Graphs(N) : N \in 1..SamplePages} \cup {PlaygroundPages}

ValidDamping(d) == Less(Zero, d) /\ Less(d, One)

\* damping factors inside (0,1), and the two ends of the interval
InsideDampings == {Rat(1, 10), Rat(1, 4), DAMPING}
OutsideDampings == {Zero, One}
\* iterate_pagerank is explored for the factors whose convergence takes at most
\* MaxIter passes
IterateDampings == InsideDampings \ {DAMPING}
\* the random walk depends on the factor only through which weights are 0
SampleDampings == {DAMPING} \cup OutsideDampings

SampleCounts == -1..MaxSamples

Keys(c) == DOMAIN c
NumKeys(c) == Cardinality(DOMAIN c)

(* --------------------------- transition_model -------------------------- *)

\* variant: the 1 - d share is spread over all the pages of the corpus
transition_model_over_corpus(c, pg, d) ==
    LET page_links_number == Cardinality(c[pg])
        corpus_pages == NumKeys(c)
        starting_prob == Div(Sub(One, d), Whole(corpus_pages))
    IN  IF page_links_number = 0
        THEN [corpus_page \in Keys(c) |-> Div(One, Whole(corpus_pages))]
        ELSE [corpus_page \in Keys(c) |->
                IF corpus_page \in c[pg]
                THEN Add(starting_prob, Div(d, Whole(page_links_number)))
                ELSE starting_prob]

transition_model(c, pg, d) ==
    LET page_links_number == Cardinality(c[pg])
        corpus_pages == NumKeys(c)
        starting_prob == Div(Sub(One, d), Whole(page_links_number + 1))
    IN  IF page_links_number = 0
        THEN [corpus_page \in Keys(c) |-> Div(One, Whole(corpus_pages))]
        ELSE [corpus_page \in Keys(c) |->
                IF corpus_page \in c[pg]
                THEN Add(starting_prob, Div(d, Whole(page_links_number)))
                ELSE starting_prob]

\* random.choices(list(model), weights=...): the pages it can draw
Choices(model) == {p \in DOMAIN model : Less(Zero, model[p])}

(* ------------------------------ check_dict ----------------------------- *)

\* both dicts are built in corpus order, so zip pairs equal keys
check_dict(new_dict, old_dict) ==
    \A k \in DOMAIN new_dict : ~Gt(Sub(new_dict[k], old_dict[k]), THRESHOLD)

(* -------------------------- iterate_pagerank --------------------------- *)

\* variant: a dangling page gives nothing to its own links_sum
RECURSIVE LinksSumToOthers(_, _, _, _)
LinksSumToOthers(c, rank, pg, k) ==
    IF k = 0 THEN Zero
    ELSE LET prev == LinksSumToOthers(c, rank, pg, k - 1)
         IN  IF pg \in c[k]
             THEN Add(prev, Div(rank[k], Whole(Cardinality(c[k]))))
             ELSE IF Cardinality(c[k]) = 0 /\ k # pg
             THEN Add(prev, Div(rank[k], Whole(NumKeys(c))))
             ELSE prev

\* the inner loop `for link in corpus` up to key k
RECURSIVE LinksSumTo(_, _, _, _)
LinksSumTo(c, rank, pg, k) ==
    IF k = 0 THEN Zero
    ELSE LET prev == LinksSumTo(c, rank, pg, k - 1)
         IN  IF pg \in c[k]
             THEN Add(prev, Div(rank[k], Whole(Cardinality(c[k]))))
             ELSE IF Cardinality(c[k]) = 0
             THEN Add(prev, Div(rank[k], Whole(NumKeys(c))))
             ELSE prev

\* variant: the damping factor is left out, a rank is its links_sum
NewPagerankUndamped(c, rank, d) ==
    CHOOSE computed \in {[pg \in Keys(c) |-> LinksSumTo(c, rank, pg, NumKeys(c))]} :
        computed = computed

\* new_pagerank before normalisation; here and in Normalize the CHOOSE makes the
\* dict a value that is computed once
NewPagerank(c, rank, d) ==
    CHOOSE computed \in {[pg \in Keys(c) |->
                            Add(Div(Sub(One, d), Whole(NumKeys(c))),
                                Mul(d, LinksSumTo(c, rank, pg, NumKeys(c))))]} :
        computed = computed

Normalize(dict) ==
    CHOOSE normalized \in {[key \in DOMAIN dict |-> Mul(dict[key], total_inverse)] :
                              total_inverse \in {Div(One, SumValues(dict))}} :
        normalized = normalized

\* variant: every rank starts at 1.0
InitialPagerankOnes(c) == [pg \in Keys(c) |-> One]

InitialPagerank(c) == [pg \in Keys(c) |-> Div(One, Whole(NumKeys(c)))]

(* ------------------------------- state --------------------------------- *)

VARIABLES
    call,                  \* the function under execution
    corpus, damping_factor, page, n,      \* its arguments
    pc,                    \* "call", "loop", "returned" or "raised"
    i,                     \* completed passes of the loop
    random_page, start_page, sample_pagerank_dict,      \* sample_pagerank
    pagerank, unnormalized, new_pagerank,               \* iterate_pagerank
    result,                \* the returned dict
    exception              \* the exception raised

vars == <<call, corpus, damping_factor, page, n, pc, i, random_page, start_page,
          sample_pagerank_dict, pagerank, unnormalized, new_pagerank, result,
          exception>>

None == <<>>

InitCommon ==
    /\ corpus \in Corpora
    /\ pc = "call"
    /\ i = 0
    /\ random_page = 0
    /\ start_page = 0
    /\ sample_pagerank_dict = None
    /\ pagerank = None
    /\ unnormalized = None
    /\ new_pagerank = None
    /\ result = None
    /\ exception = "none"

(* transition_model(corpus, page, damping_factor) *)

InitTransition ==
    /\ call = "transition_model"
    /\ InitCommon
    /\ damping_factor \in InsideDampings \cup OutsideDampings
    /\ page \in Keys(corpus)
    /\ n = 0

TransitionReturn ==
    /\ call = "transition_model"
    /\ pc = "call"
    /\ result' = transition_model(corpus, page, damping_factor)
    /\ pc' = "returned"
    /\ UNCHANGED <<call, corpus, damping_factor, page, n, i, random_page,
                   start_page, sample_pagerank_dict, pagerank, unnormalized,
                   new_pagerank, exception>>

NextTransition == TransitionReturn

SpecTransition == InitTransition /\ [][NextTransition]_vars

(* sample_pagerank(corpus, damping_factor, n) *)

InitSample ==
    /\ call = "sample_pagerank"
    /\ InitCommon
    /\ corpus \in SampleCorpora
    /\ damping_factor \in SampleDampings
    /\ page = 0
    /\ n \in SampleCounts

\* lines 82-83: the counters and the starting page
SampleStart ==
    /\ call = "sample_pagerank"
    /\ pc = "call"
    /\ sample_pagerank_dict' = [key \in Keys(corpus) |-> 0]
    /\ random_page' \in Keys(corpus)
    /\ start_page' = random_page'
    /\ pc' = "loop"
    /\ UNCHANGED <<call, corpus, damping_factor, page, n, i, pagerank,
                   unnormalized, new_pagerank, result, exception>>

\* variant: the page just drawn is counted instead of the current one
TallyDrawn(dict, current, drawn) == [dict EXCEPT ![drawn] = @ + 1]

\* line 86
Tally(dict, current, drawn) == [dict EXCEPT ![current] = @ + 1]

\* lines 84-89: one pass of `for _ in range(0, n)`
SampleStep ==
    /\ call = "sample_pagerank"
    /\ pc = "loop"
    /\ i < n
    /\ LET model == transition_model(corpus, random_page, damping_factor)
       IN  \E drawn \in Choices(model) :
              /\ sample_pagerank_dict' = Tally(sample_pagerank_dict, random_page, drawn)
              /\ random_page' = drawn
    /\ i' = i + 1
    /\ UNCHANGED <<call, corpus, damping_factor, page, n, pc, start_page,
                   pagerank, unnormalized, new_pagerank, result, exception>>

\* lines 90-93 when the counters' sum is not 0
SampleReturn ==
    /\ call = "sample_pagerank"
    /\ pc = "loop"
    /\ i >= n
    /\ IntSumValues(sample_pagerank_dict) # 0
    /\ LET total_inverse == Div(One, Whole(IntSumValues(sample_pagerank_dict)))
       IN  result' = [key \in Keys(corpus) |->
                        Mul(Whole(sample_pagerank_dict[key]), total_inverse)]
    /\ pc' = "returned"
    /\ UNCHANGED <<call, corpus, damping_factor, page, n, i, random_page,
                   start_page, sample_pagerank_dict, pagerank, unnormalized,
                   new_pagerank, exception>>

\* line 90 when the counters' sum is 0: 1.0 / 0
SampleDivideByZero ==
    /\ call = "sample_pagerank"
    /\ pc = "loop"
    /\ i >= n
    /\ IntSumValues(sample_pagerank_dict) = 0
    /\ pc' = "raised"
    /\ exception' = "ZeroDivisionError"
    /\ UNCHANGED <<call, corpus, damping_factor, page, n, i, random_page,
                   start_page, sample_pagerank_dict, pagerank, unnormalized,
                   new_pagerank, result>>

NextSample == SampleStart \/ SampleStep \/ SampleReturn \/ SampleDivideByZero

SpecSample == InitSample /\ [][NextSample]_vars

(* iterate_pagerank(corpus, damping_factor) *)

InitIterateWith(dampings) ==
    /\ call = "iterate_pagerank"
    /\ InitCommon
    /\ damping_factor \in dampings
    /\ page = 0
    /\ n = 0

InitIterate == InitIterateWith(IterateDampings)

\* lines 104-106
IterateStart ==
    /\ call = "iterate_pagerank"
    /\ pc = "call"
    /\ pagerank' = InitialPagerank(corpus)
    /\ pc' = "loop"
    /\ UNCHANGED <<call, corpus, damping_factor, page, n, i, random_page,
                   start_page, sample_pagerank_dict, unnormalized, new_pagerank,
                   result, exception>>

\* variant: the mapping just computed is returned
ReturnedNew(old_pagerank, normalized) == normalized

\* line 127
Returned(old_pagerank, normalized) == old_pagerank

\* lines 109-128: one pass of the while loop
IteratePass ==
    /\ call = "iterate_pagerank"
    /\ pc = "loop"
    /\ i < MaxIter
    /\ \E computed \in {NewPagerank(corpus, pagerank, damping_factor)} :
       \E normalized \in {Normalize(computed)} :
          /\ unnormalized' = computed
          /\ new_pagerank' = normalized
          /\ IF check_dict(normalized, pagerank)
             THEN /\ result' = Returned(pagerank, normalized)
                  /\ pc' = "returned"
                  /\ UNCHANGED pagerank
             ELSE /\ pagerank' = normalized
                  /\ UNCHANGED <<pc, result>>
    /\ i' = i + 1
    /\ UNCHANGED <<call, corpus, damping_factor, page, n, random_page,
                   start_page, sample_pagerank_dict, exception>>

NextIterate == IterateStart \/ IteratePass

SpecIterate == InitIterate /\ [][NextIterate]_vars

\* the while loop keeps running until it returns
FairSpecIterate == SpecIterate /\ WF_vars(NextIterate)

(* any of the three calls *)

Init == InitTransition \/ InitSample \/ InitIterateWith(IterateDampings \cup OutsideDampings)

Next == NextTransition \/ NextSample \/ NextIterate

Spec == Init /\ [][Next]_vars

(* ----------------------------- properties ------------------------------ *)

AbsRat(x) == IF x.num < 0 THEN Neg(x) ELSE x
Within(x, y, tol) == Leq(AbsRat(Sub(x, y)), tol)
Dangling(c) == {q \in Keys(c) : c[q] = {}}

TransitionReturned == call = "transition_model" /\ pc = "returned"
IterateRunning == call = "iterate_pagerank" /\ pc \in {"loop", "returned"}
IterateReturned == call = "iterate_pagerank" /\ pc = "returned"
SampleRunning == call = "sample_pagerank" /\ pc \in {"loop", "returned"}

\* C1: for a damping factor in (0,1) the values of the distribution returned
\* by transition_model sum to 1.0 within 1e-9, whatever the number of links
\* of the page and the number of pages of the corpus.
TransitionSumsToOne ==
    (TransitionReturned /\ ValidDamping(damping_factor))
        => Within(SumValues(result), One, Rat(1, 1000000000))

\* the values C2 gives for the page q of transition_model(corpus, page, d)
StatedProbability(q) ==
    LET k == Cardinality(corpus[page])
        base == Div(Sub(One, damping_factor), Whole(k + 1))
    IN  IF k = 0 THEN Rat(1, NumKeys(corpus))
        ELSE IF q \in corpus[page] THEN Add(base, Div(damping_factor, Whole(k)))
        ELSE base

IsDistribution(dict) ==
    /\ Within(SumValues(dict), One, Rat(1, 1000000))
    /\ \A q \in DOMAIN dict : Leq(Zero, dict[q]) /\ Leq(dict[q], One)

\* C3: for a damping factor in (0,1) the mapping held at the start of every
\* pass of the loop of iterate_pagerank, and the mapping it returns, has values
\* in [0,1] that sum to 1.0 within 1e-6.
IterateRanksAreDistribution ==
    (IterateRunning /\ ValidDamping(damping_factor)) =>
        /\ DOMAIN pagerank = Keys(corpus)
        /\ IsDistribution(pagerank)
        /\ (pc = "returned" => DOMAIN result = Keys(corpus) /\ IsDistribution(result))

IterateRanksAreDistributionWitness ==
    /\ IterateReturned
    /\ ValidDamping(damping_factor)
    /\ i >= 3
    /\ NumKeys(corpus) >= 3
    /\ \E q \in Keys(corpus) : result[q] # Rat(1, NumKeys(corpus))

\* C4: iterate_pagerank declares convergence only in a pass where every page's
\* new normalized rank differs from its previous rank by at most 0.001 in
\* absolute value.
ConvergenceIsAbsolute ==
    (IterateReturned /\ ValidDamping(damping_factor)) =>
        \A q \in Keys(corpus) : Within(new_pagerank[q], pagerank[q], THRESHOLD)

\* C5: for a damping factor in (0,1) the loop of iterate_pagerank eventually
\* declares convergence and returns.
IterateTerminates ==
    (call = "iterate_pagerank" /\ ValidDamping(damping_factor)) ~> (pc = "returned")

IterateTerminatesWitness ==
    /\ IterateReturned
    /\ ValidDamping(damping_factor)
    /\ i >= 4

\* C6: when iterate_pagerank declares convergence it returns the mapping that
\* was current before that pass, not the one the pass computed; if that is the
\* first pass, it returns the initial mapping 1/N.
ReturnsPreviousMapping ==
    [][(call = "iterate_pagerank" /\ pc = "loop" /\ pc' = "returned") =>
          /\ result' = pagerank
          /\ (i = 0 => result' = [q \in Keys(corpus) |-> Rat(1, NumKeys(corpus))])]_vars

ReturnsPreviousMappingWitness ==
    /\ IterateReturned
    /\ i >= 2
    /\ result = pagerank
    /\ result # new_pagerank

\* sum of f over the set S
RECURSIVE SumOver(_, _)
SumOver(S, f) ==
    IF S = {} THEN Zero
    ELSE LET q == CHOOSE q \in S : TRUE
         IN  Add(f[q], SumOver(S \ {q}, f))

\* the links_sum C7 gives for page p from the mapping rank
StatedLinksSum(p, rank) ==
    LET N == NumKeys(corpus)
        share == [q \in Keys(corpus) |->
                    IF p \in corpus[q] THEN Div(rank[q], Whole(Cardinality(corpus[q])))
                    ELSE IF corpus[q] = {} THEN Div(rank[q], Whole(N))
                    ELSE Zero]
    IN  SumOver(Keys(corpus), share)

\* C7: in every pass of iterate_pagerank the new rank of each page p before
\* normalization is (1-d)/N + d * links_sum(p), where links_sum(p) adds
\* rank[q]/outdegree(q) for every q linking to p and rank[q]/N for every
\* dangling q (p itself included), with rank the mapping of the previous pass.
NewRankFormula ==
    [][(call = "iterate_pagerank" /\ i' = i + 1) =>
          \A p \in Keys(corpus) :
             unnormalized'[p] =
                Add(Div(Sub(One, damping_factor), Whole(NumKeys(corpus))),
                    Mul(damping_factor, StatedLinksSum(p, pagerank)))]_vars

NewRankFormulaWitness ==
    /\ IterateRunning
    /\ i >= 2
    /\ ValidDamping(damping_factor)
    /\ Dangling(corpus) # {}
    /\ \E q \in Keys(corpus) : corpus[q] # {}
    /\ unnormalized # [q \in Keys(corpus) |-> Rat(1, NumKeys(corpus))]

\* C8: with n >= 1 every pass of the loop of sample_pagerank increments exactly
\* the counter of the page the walk is on before the next page is drawn, so
\* the counters sum to the number of passes, and the returned values are
\* counter / n for every page and sum to 1.0.
SampleCountsVisits ==
    [][(call = "sample_pagerank" /\ n >= 1) =>
          /\ (i' = i + 1) =>
                /\ sample_pagerank_dict' =
                      [sample_pagerank_dict EXCEPT ![random_page] = @ + 1]
                /\ (i = 0 => random_page = start_page)
          /\ (pc' = "loop") => IntSumValues(sample_pagerank_dict') = i'
          /\ (pc' = "returned") =>
                /\ i' = n
                /\ IntSumValues(sample_pagerank_dict') = n
                /\ DOMAIN result' = Keys(corpus)
                /\ \A q \in Keys(corpus) : result'[q] = Rat(sample_pagerank_dict'[q], n)
                /\ SumValues(result') = One]_vars

SampleCountsWitness ==
    /\ call = "sample_pagerank"
    /\ pc = "returned"
    /\ n >= 2
    /\ sample_pagerank_dict[random_page] = 0
    /\ sample_pagerank_dict[start_page] >= 1

\* C9: sample_pagerank called with n <= 0 fails with an invalid-argument error
\* raised by a guard on n; it returns no mapping and never reaches the
\* division by the counters' sum.
SampleGuardsCount ==
    (call = "sample_pagerank" /\ n <= 0) =>
        /\ pc # "returned"
        /\ exception \in {"none", "ValueError"}

\* C10: a call of transition_model, sample_pagerank or iterate_pagerank with a
\* damping factor outside (0,1) fails with an error and returns nothing.
InvalidDampingFails ==
    ~ValidDamping(damping_factor) => pc # "returned"

====
